---- MODULE Spec2Model ----
(***************************************************************************)
(* Video transcription queue: the single-flight background worker of       *)
(* worker.py, the video table of models.py and the request handlers of     *)
(* app.py (scan, upload, retry) that enqueue jobs and trigger the worker.  *)
(*                                                                         *)
(* Threads: request threads (Flask serves requests concurrently) and the   *)
(* worker threads spawned by start_processing.  Every database statement   *)
(* or commit, every lock region and every external call is one step, so    *)
(* that all interleavings between the threads are explored.                *)
(***************************************************************************)
EXTENDS Integers, Sequences, FiniteSets, Bags, TLC

\* ---------------------------------------------------------------- bounds
MaxJobs == 2        \* rows the video table may hold
MaxTime == 2        \* last value of the wall clock
MaxReq == 2         \* concurrent request threads
MaxRequests == 3    \* requests served in one run
MaxWorkers == 2     \* thread slots available to threading.Thread
MaxHours == 25      \* longest time given to format_srt_time, in hours

\* Column values.  NULL is SQL NULL in a text column, None in a numeric one.
NULL == "NULL"
None == -1
NoPath == <<>>

\* File names are token sequences: "a.mp4" is <<"a">>, "a_2.mp4" is <<"a", 2>>
\* (the extension is stripped by os.path.splitext); a file path is
\* <<folder, name>>.  The scanned folder holds a.mp4; a.mp4 is uploaded.
ScanFolders == {"f1"}
UploadDir == "uploads"
Workers == 1..MaxWorkers

VARIABLES
    jobs,       \* the video table: a sequence of rows, row i has id i
    _running,   \* worker.py module global
    clock,      \* the last value datetime.now(timezone.utc) returned
    worker,     \* per thread slot: the state of one _process_videos call
    req,        \* the handler calls in progress on the request threads
    disk,       \* files: uploads, output files, temporary audio
    served,     \* requests accepted so far
    credential, \* whether OPENAI_API_KEY is set in the process environment
    srt         \* format_srt_time: the argument of a call and what it returned

vars == <<jobs, _running, clock, worker, req, disk, served, credential, srt>>


\* --------------------------------------------------------- the video table
Columns ==
    {"id", "filename", "filepath", "duration_seconds", "status",
     "error_message", "transcript_text", "transcript_preview",
     "segments_json", "txt_path", "srt_path", "created_at", "processed_at"}

\* Video(filename=..., filepath=..., duration_seconds=..., status="pending")
\* as the INSERT stores it: id from the autoincrement key, created_at from
\* the column default, every other column NULL.
Video(id, filepath, duration, now) ==
    [id |-> id, filename |-> filepath[2], filepath |-> filepath,
     duration_seconds |-> duration, status |-> "pending",
     error_message |-> NULL, transcript_text |-> NULL,
     transcript_preview |-> NULL, segments_json |-> NULL,
     txt_path |-> NoPath, srt_path |-> NoPath,
     created_at |-> now, processed_at |-> None]

Ids == 1..Len(jobs)

\* The UPDATE a commit emits: the attributes set on the object since the last
\* commit (dirty) overwrite the row, whatever the row holds by then.
Update(row, dirty) ==
    [c \in Columns |-> IF c \in DOMAIN dirty THEN dirty[c] ELSE row[c]]

Commit(id, dirty) ==
    jobs' = [jobs EXCEPT ![id] = Update(jobs[id], dirty)]

\* Video.query.filter_by(status="pending").order_by(Video.created_at.asc())
\* .first(): the candidates.  Rows with equal created_at are ordered by
\* nothing in the query, so any of them may come first.
Pending == {i \in Ids : jobs[i].status = "pending"}

OldestPending ==
    {i \in Pending : \A k \in Pending : jobs[i].created_at <= jobs[k].created_at}

\* datetime.now(timezone.utc): not earlier than the value returned last.
Now == {t \in {clock, clock + 1} : t <= MaxTime}

\* processed_at = datetime.now(timezone.utc).  No code reads the value back,
\* only whether the column is NULL, so one value stands for every datetime.
Processed == 0

\* get_video_duration: the probed duration, or None when ffprobe fails.
Duration == 7
ProbeResults == {None, Duration}

\* The probe made when the file is enqueued.  Inputs: ffprobe reads the scanned
\* files, and fails on a file just uploaded (the worker probes that one again).
ProbeNew(filepath) == IF filepath[1] = "uploads" THEN {None} ELSE {Duration}

\* Exception texts stored by str(exc).
MsgNoFFmpeg == "FFmpeg not found. Install it and ensure it is on your PATH."
MsgExtract == "Error extracting audio"
\* The text of an exception raised by a library (the transcription client,
\* open(), json, the database driver): one text stands for them all.
MsgOther == "str(exc)"
\* OpenAIError raised by OpenAI() when OPENAI_API_KEY is not set.
MsgNoCredential == "The api_key client option must be set"

\* format_srt_time has not been called.
NoCall == <<>>

\* ------------------------------------------------------------ worker thread
NoWorker ==
    [pc |-> "none", video |-> 0, dirty |-> <<>>, audio_path |-> FALSE,
     out |-> NoPath, exc |-> NULL]

Live(w) == worker[w].pc # "none"

\* An exception leaves the try block: control goes to the except clause.
Raise(w, msg, dirty, audio) ==
    worker' = [worker EXCEPT ![w].pc = "handler", ![w].exc = msg,
                             ![w].dirty = dirty, ![w].audio_path = audio]

\* finally: if audio_path and os.path.exists(audio_path): os.unlink(audio_path)
Finally(w) ==
    IF worker[w].audio_path
    THEN [disk EXCEPT !.tmp = @ \ {worker[w].video}]
    ELSE disk

\* The loop's query finds a pending job, or none and leaves the loop.
Query(w) ==
    /\ worker[w].pc = "query"
    /\ IF Pending = {}
       THEN worker' = [worker EXCEPT ![w].pc = "reset"]
       ELSE \E v \in OldestPending :
                worker' = [worker EXCEPT ![w].pc = "claim", ![w].video = v]
    /\ UNCHANGED <<jobs, _running, clock, req, disk, served, credential, srt>>

\* The query raises: nothing in _process_videos catches it, the thread ends
\* and the lines after the loop are never reached.
QueryFail(w) ==
    /\ worker[w].pc = "query"
    /\ worker' = [worker EXCEPT ![w] = NoWorker]
    /\ UNCHANGED <<jobs, _running, clock, req, disk, served, credential, srt>>

\* video.status = "processing"; db.session.commit()
Claim(w) ==
    /\ worker[w].pc = "claim"
    /\ Commit(worker[w].video, [status |-> "processing"])
    /\ worker' = [worker EXCEPT ![w].pc = "duration"]
    /\ UNCHANGED <<_running, clock, req, disk, served, credential, srt>>

\* That commit raises, outside the try block: the thread ends.
ClaimFail(w) ==
    /\ worker[w].pc = "claim"
    /\ worker' = [worker EXCEPT ![w] = NoWorker]
    /\ UNCHANGED <<jobs, _running, clock, req, disk, served, credential, srt>>

\* if video.duration_seconds is None: probe it and commit.
ProbeDuration(w) ==
    /\ worker[w].pc = "duration"
    /\ LET v == worker[w].video IN
       IF jobs[v].duration_seconds # None
       THEN /\ worker' = [worker EXCEPT ![w].pc = "run"]
            /\ UNCHANGED jobs
       ELSE \E d \in ProbeResults :
                /\ Commit(v, [duration_seconds |-> d])
                /\ worker' = [worker EXCEPT ![w].pc = "run"]
    /\ UNCHANGED <<_running, clock, req, disk, served, credential, srt>>

\* The commit of the probed duration raises; the session rolls back.
ProbeDurationFail(w) ==
    /\ worker[w].pc = "duration"
    /\ jobs[worker[w].video].duration_seconds = None
    /\ Raise(w, MsgOther, <<>>, worker[w].audio_path)
    /\ UNCHANGED <<jobs, _running, clock, req, disk, served, credential, srt>>

\* Output files: f"{base}_transcript.txt" is <<base, "txt">>, and
\* f"{base}_{video.id}_transcript.txt" is <<Append(base, id), "txt">>.
Exists(name, ext) == \E f \in disk.out : f.name = name /\ f.ext = ext

\* Build output paths; duplicate file names get the video id appended.
OutputName(v) ==
    LET base == jobs[v].filename IN
    IF Exists(base, "txt") \/ Exists(base, "srt") THEN Append(base, v) ELSE base

\* open(output_path, "w") creates the file or truncates the one already there.
WriteFile(files, name, ext, v) ==
    {f \in files : ~(f.name = name /\ f.ext = ext)}
        \cup {[name |-> name, ext |-> ext, owner |-> v]}

\* Lines 47-76 touch nothing another thread reads (the temporary audio file,
\* the output folder, attributes of the session's object), so each way through
\* them is one step: those that raise end in the except clause, the one that
\* does not at the commit of line 79.

\* extract_audio: FileNotFoundError or CalledProcessError; it unlinks its
\* temporary file and raises RuntimeError; audio_path stays None.
ExtractAudioFail(w) ==
    /\ worker[w].pc = "run"
    /\ \E msg \in {MsgNoFFmpeg, MsgExtract} : Raise(w, msg, <<>>, FALSE)
    /\ UNCHANGED <<jobs, _running, clock, req, disk, served, credential, srt>>

\* A temporary file that no variable of the worker names: the file mkstemp
\* created for video v when extract_audio did not return its path.
Orphan(v) == 0 - v

\* extract_audio: subprocess.run raises something else than the two exceptions
\* caught (PermissionError, OSError when the process cannot be started): the
\* exception leaves extract_audio past both except clauses, the file made by
\* mkstemp stays, and audio_path in the worker is still None.
ExtractAudioLeak(w) ==
    /\ worker[w].pc = "run"
    /\ Raise(w, MsgOther, <<>>, FALSE)
    /\ disk' = [disk EXCEPT !.tmp = @ \cup {Orphan(worker[w].video)}]
    /\ UNCHANGED <<jobs, _running, clock, req, served, credential, srt>>

\* extract_audio returns the temporary file; OpenAI() finds no api key in the
\* environment and raises before any request is sent.
MissingCredential(w) ==
    /\ worker[w].pc = "run"
    /\ ~credential
    /\ Raise(w, MsgNoCredential, <<>>, TRUE)
    /\ disk' = [disk EXCEPT !.tmp = @ \cup {worker[w].video}]
    /\ UNCHANGED <<jobs, _running, clock, req, served, credential, srt>>

\* extract_audio returns the temporary file; the transcription request raises.
TranscribeFail(w) ==
    /\ worker[w].pc = "run"
    /\ credential
    /\ Raise(w, MsgOther, <<>>, TRUE)
    /\ disk' = [disk EXCEPT !.tmp = @ \cup {worker[w].video}]
    /\ UNCHANGED <<jobs, _running, clock, req, served, credential, srt>>

\* dict(s), os.makedirs or write_txt raises before a file is created, or
\* write_srt raises after the .txt file has been written.
WriteOutputsFail(w) ==
    /\ worker[w].pc = "run"
    /\ credential
    /\ LET v == worker[w].video
           name == OutputName(v) IN
       \/ disk' = [disk EXCEPT !.tmp = @ \cup {v}]
       \/ disk' = [disk EXCEPT !.tmp = @ \cup {v},
                               !.out = WriteFile(@, name, "txt", v)]
    /\ Raise(w, MsgOther, <<>>, TRUE)
    /\ UNCHANGED <<jobs, _running, clock, req, served, credential, srt>>

\* Both files are written; then segments_to_text raises before any attribute
\* is set, or json.dumps raises after transcript_text and transcript_preview
\* were set on the object: these stay pending in the session.
RecordRaise(w) ==
    /\ worker[w].pc = "run"
    /\ credential
    /\ LET v == worker[w].video
           name == OutputName(v) IN
       disk' = [disk EXCEPT !.tmp = @ \cup {v},
            !.out = WriteFile(WriteFile(@, name, "txt", v), name, "srt", v)]
    /\ \/ Raise(w, MsgOther, <<>>, TRUE)
       \/ Raise(w, MsgOther,
                [transcript_text |-> "text", transcript_preview |-> "preview"],
                TRUE)
    /\ UNCHANGED <<jobs, _running, clock, req, served, credential, srt>>

\* Every step succeeds: audio extracted, transcribed, both files written.
RunPipeline(w) ==
    /\ worker[w].pc = "run"
    /\ credential
    /\ LET v == worker[w].video
           name == OutputName(v) IN
       /\ disk' = [disk EXCEPT !.tmp = @ \cup {v},
               !.out = WriteFile(WriteFile(@, name, "txt", v), name, "srt", v)]
       /\ worker' = [worker EXCEPT ![w].pc = "record", ![w].out = name,
                                   ![w].audio_path = TRUE]
    /\ UNCHANGED <<jobs, _running, clock, req, served, credential, srt>>

\* Faulty variant: segments_json is left out of the success record.
DoneRecordNoSegments(w) ==
    [transcript_text |-> "text", transcript_preview |-> "preview",
     txt_path |-> <<worker[w].out, "txt">>,
     srt_path |-> <<worker[w].out, "srt">>,
     status |-> "done", processed_at |-> Processed]

\* Lines 71-78: the attributes set on the video object before the commit.
DoneRecord(w) ==
    [transcript_text |-> "text", transcript_preview |-> "preview",
     segments_json |-> "json",
     txt_path |-> <<worker[w].out, "txt">>,
     srt_path |-> <<worker[w].out, "srt">>,
     status |-> "done", processed_at |-> Processed]

\* Update record and commit; then the finally clause, and the loop goes on.
RecordDone(w) ==
    /\ worker[w].pc = "record"
    /\ Commit(worker[w].video, DoneRecord(w))
    /\ disk' = Finally(w)
    /\ worker' = [worker EXCEPT ![w] = [NoWorker EXCEPT !.pc = "query"]]
    /\ UNCHANGED <<_running, clock, req, served, credential, srt>>

\* The commit of the success record raises: the session rolls back and the
\* attributes set on the object are discarded.
RecordCommitFail(w) ==
    /\ worker[w].pc = "record"
    /\ Raise(w, MsgOther, <<>>, worker[w].audio_path)
    /\ UNCHANGED <<jobs, _running, clock, req, disk, served, credential, srt>>

\* Faulty variant: the except clause does not set processed_at.
FailedRecordNoProcessedAt(w) ==
    [c \in DOMAIN worker[w].dirty \cup {"status", "error_message"} |->
        CASE c = "status" -> "failed"
          [] c = "error_message" -> worker[w].exc
          [] OTHER -> worker[w].dirty[c]]

\* Lines 82-84: what the except clause sets, on top of what is still pending.
FailedRecord(w) ==
    [c \in DOMAIN worker[w].dirty \cup {"status", "error_message", "processed_at"} |->
        CASE c = "status" -> "failed"
          [] c = "error_message" -> worker[w].exc
          [] c = "processed_at" -> Processed
          [] OTHER -> worker[w].dirty[c]]

\* except Exception: mark the video failed and commit; finally; next job.
HandleException(w) ==
    /\ worker[w].pc = "handler"
    /\ Commit(worker[w].video, FailedRecord(w))
    /\ disk' = Finally(w)
    /\ worker' = [worker EXCEPT ![w] = [NoWorker EXCEPT !.pc = "query"]]
    /\ UNCHANGED <<_running, clock, req, served, credential, srt>>

\* The commit inside the except clause raises: finally runs, the exception
\* leaves _process_videos and the thread ends.
HandleExceptionFail(w) ==
    /\ worker[w].pc = "handler"
    /\ disk' = Finally(w)
    /\ worker' = [worker EXCEPT ![w] = NoWorker]
    /\ UNCHANGED <<jobs, _running, clock, req, served, credential, srt>>

\* with _lock: _running = False; the thread function returns.
ResetRunning(w) ==
    /\ worker[w].pc = "reset"
    /\ _running' = FALSE
    /\ worker' = [worker EXCEPT ![w] = NoWorker]
    /\ UNCHANGED <<jobs, clock, req, disk, served, credential, srt>>

\* ----------------------------------------------------------- request threads
\* The handler calls in progress, as a bag of per-call states: request threads
\* are interchangeable, so only how many calls are in each state matters.
Call(pc, op) ==
    [pc |-> pc, op |-> op, paths |-> <<>>, new |-> <<>>, video |-> 0,
     result |-> "none"]

Calls == BagToSet(req)

\* A request arrives and a free request thread takes it.
Accept(q) ==
    /\ BagCardinality(req) < MaxReq
    /\ served < MaxRequests
    /\ served' = served + 1
    /\ req' = req (+) SetToBag({q})

\* The call moves on, or returns.
Goto(q, q2) == req' = (req (-) SetToBag({q})) (+) SetToBag({q2})
Return(q) == req' = req (-) SetToBag({q})

\* flash(...); return redirect(url_for("index"))
Respond(q, result) ==
    Goto(q, [Call("respond", "none") EXCEPT !.result = result])

\* scan_folder(folder): the sorted video files of the folder.
scan_folder(folder) == << <<folder, <<"a">>>> >>

\* Rows the table holds plus rows the calls in progress may still insert.
RECURSIVE InFlight(_)
InFlight(S) ==
    IF S = {} THEN 0
    ELSE LET q == CHOOSE x \in S : TRUE IN
         req[q] * (Len(q.paths) + Len(q.new)) + InFlight(S \ {q})

Reserved == Len(jobs) + InFlight(Calls)

\* Video.query.filter_by(filepath=filepath).first()
existing(filepath) == \E i \in Ids : jobs[i].filepath = filepath

\* scan: the folder is listed.
Scan(folder) ==
    /\ Reserved + Len(scan_folder(folder)) <= MaxJobs
    /\ Accept([Call("loop", "scan") EXCEPT !.paths = scan_folder(folder)])
    /\ UNCHANGED <<jobs, _running, clock, worker, disk, credential, srt>>

\* One pass of "for filepath in paths": skip a path that has a row, else
\* probe its duration and add a Video to the session.
ScanPath(q) ==
    /\ q.pc = "loop"
    /\ LET filepath == Head(q.paths)
           rest == Tail(q.paths)
           next == IF rest = <<>> THEN "commit" ELSE "loop" IN
       IF existing(filepath)
       THEN Goto(q, [q EXCEPT !.paths = rest, !.pc = next])
       ELSE \E d \in ProbeNew(filepath) :
                Goto(q, [q EXCEPT !.paths = rest, !.pc = next,
                            !.new = Append(@, [filepath |-> filepath,
                                               duration |-> d])])
    /\ UNCHANGED <<jobs, _running, clock, worker, disk, served, credential, srt>>

\* The INSERTs of db.session.commit(): ids continue the autoincrement key.
Insert(new, now) ==
    jobs \o [k \in 1..Len(new) |->
                Video(Len(jobs) + k, new[k].filepath, new[k].duration, now)]

\* Faulty variant: the filepath column without its UNIQUE constraint.
NoUniqueConstraint(new) == FALSE

\* filepath is UNIQUE (models.py): the INSERT of a path that has a row raises
\* IntegrityError.
IntegrityError(new) == \E k \in 1..Len(new) : existing(new[k].filepath)

\* db.session.commit() of scan and upload.  If a row with one of the paths has
\* appeared meanwhile the commit raises IntegrityError and the request ends
\* with nothing inserted.  added = 0 ends the request too.
CommitNew(q) ==
    /\ q.pc = "commit"
    /\ q.op \in {"scan", "upload"}
    /\ IF q.new = <<>>
       THEN /\ Respond(q, "nothing")
            /\ UNCHANGED <<jobs, clock>>
       ELSE IF IntegrityError(q.new)
       THEN /\ Respond(q, "error")
            /\ UNCHANGED <<jobs, clock>>
       ELSE /\ \E now \in Now : jobs' = Insert(q.new, now) /\ clock' = now
            /\ Goto(q, Call("start", q.op))
    /\ UNCHANGED <<_running, worker, disk, served, credential, srt>>

\* upload: dest is the secured file name, or base_counter with the first
\* counter for which no such file exists in the upload folder.
RECURSIVE Counter(_, _)
Counter(name, counter) ==
    IF Append(name, counter) \in disk.uploads
    THEN Counter(name, counter + 1)
    ELSE counter

Dest(name) ==
    IF name \in disk.uploads THEN Append(name, Counter(name, 1)) ELSE name

UploadNames == {<<"a">>}

Upload(name) ==
    /\ Reserved + 1 <= MaxJobs
    /\ Accept([Call("save", "upload") EXCEPT
                  !.paths = << <<UploadDir, Dest(name)>> >>])
    /\ UNCHANGED <<jobs, _running, clock, worker, disk, credential, srt>>

\* f.save(dest), then the row lookup and the Video added to the session.
UploadSave(q) ==
    /\ q.pc = "save"
    /\ LET dest == Head(q.paths) IN
       /\ disk' = [disk EXCEPT !.uploads = @ \cup {dest[2]}]
       /\ IF existing(dest)
          THEN Goto(q, Call("commit", "upload"))
          ELSE \E d \in ProbeNew(dest) :
                   Goto(q, [Call("commit", "upload") EXCEPT
                               !.new = <<[filepath |-> dest, duration |-> d]>>])
    /\ UNCHANGED <<jobs, _running, clock, worker, served, credential, srt>>

\* Faulty variant: retry without the status check.
RetryAnyStatus(id) ==
    /\ id \in Ids
    /\ Accept([Call("commit", "retry") EXCEPT !.video = id])
    /\ UNCHANGED <<jobs, _running, clock, worker, disk, credential, srt>>

\* retry: db.get_or_404 loads the row; only a failed video is touched.
Retry(id) ==
    /\ id \in Ids
    /\ IF jobs[id].status = "failed"
       THEN Accept([Call("commit", "retry") EXCEPT !.video = id])
       ELSE Accept([Call("respond", "retry") EXCEPT !.video = id,
                                                    !.result = "ignored"])
    /\ UNCHANGED <<jobs, _running, clock, worker, disk, credential, srt>>

\* Faulty variant: retry leaves the old error message in place.
RetryRecordKeepsError == [status |-> "pending", processed_at |-> None]

\* video.status = "pending"; error_message = None; processed_at = None
RetryRecord ==
    [status |-> "pending", error_message |-> NULL, processed_at |-> None]

\* db.session.commit() of retry.
RetryCommit(q) ==
    /\ q.pc = "commit"
    /\ q.op = "retry"
    /\ Commit(q.video, RetryRecord)
    /\ Goto(q, Call("start", "retry"))
    /\ UNCHANGED <<_running, clock, worker, disk, served, credential, srt>>

\* Faulty variant: start_processing without the _running check.
StartProcessingUnguarded(q) ==
    /\ q.pc = "start"
    /\ Goto(q, Call("spawn", q.op))
    /\ _running' = TRUE
    /\ UNCHANGED <<jobs, clock, worker, disk, served, credential, srt>>

\* Faulty variant: start_processing never sets _running.
StartProcessingNoFlag(q) ==
    /\ q.pc = "start"
    /\ IF _running
       THEN Respond(q, "running")
       ELSE Goto(q, Call("spawn", q.op))
    /\ UNCHANGED <<jobs, _running, clock, worker, disk, served, credential, srt>>

\* start_processing, lines 98-101: under _lock, return if _running, else set it.
StartProcessing(q) ==
    /\ q.pc = "start"
    /\ IF _running
       THEN /\ Respond(q, "running")
            /\ UNCHANGED _running
       ELSE /\ Goto(q, Call("spawn", q.op))
            /\ _running' = TRUE
    /\ UNCHANGED <<jobs, clock, worker, disk, served, credential, srt>>

\* start_processing, lines 102-103: the thread starts in the first free slot.
StartThread(q) ==
    /\ q.pc = "spawn"
    /\ \E w \in Workers :
        /\ ~Live(w)
        /\ \A x \in Workers : ~Live(x) => w <= x
        /\ worker' = [worker EXCEPT ![w].pc = "query"]
    /\ Respond(q, "spawned")
    /\ UNCHANGED <<jobs, _running, clock, disk, served, credential, srt>>

\* The response is sent and the request thread is free again.
SendResponse(q) ==
    /\ q.pc = "respond"
    /\ Return(q)
    /\ UNCHANGED <<jobs, _running, clock, worker, disk, served, credential, srt>>

\* ------------------------------------------------------------- SRT timestamps
\* A time in seconds is a float in the code.  Here it is <<whole, frac>>: whole
\* seconds and a fraction counted in units of a tenth of a millisecond, which
\* is exact, and fine enough to tell rounding from truncation.
SubUnits == 10 * 1000

\* f"{n:0{width}d}": the decimal digits of n, zero-padded on the left to at
\* least width digits; a longer number is not cut.
RECURSIVE Digits(_)
Digits(n) == IF n < 10 THEN <<n>> ELSE Append(Digits(n \div 10), n % 10)

Pad(n, width) ==
    LET d == Digits(n) IN
    IF Len(d) >= width THEN d ELSE [k \in 1..(width - Len(d)) |-> 0] \o d

\* int(round((seconds - int(seconds)) * 1000)).  round() goes to the nearest
\* integer; on a tie the float product may lie on either side of .5, so both
\* neighbours are possible.
Millis(frac) ==
    {m \in {frac \div 10, frac \div 10 + 1} :
        /\ m = frac \div 10 => frac % 10 <= 5
        /\ m = frac \div 10 + 1 => frac % 10 >= 5}

\* format_srt_time(seconds): the four fields of HH:MM:SS,mmm as digit strings.
format_srt_time(seconds) ==
    LET whole == seconds[1]
        hrs == whole \div 3600
        mins == (whole % 3600) \div 60
        secs == whole % 60
    IN  {<<Pad(hrs, 2), Pad(mins, 2), Pad(secs, 2), Pad(millis, 3)>> :
            millis \in Millis(seconds[2])}

\* The times format_srt_time is called with: every hour up to MaxHours, the
\* first, second and last minute and second, and fractions around the
\* millisecond, the half second and the end of the second.
SrtTimes ==
    {<<h * 3600 + m * 60 + sec, f>> :
        h \in 0..MaxHours, m \in {0, 1, 59}, sec \in {0, 1, 59},
        f \in {x \in 0..(SubUnits - 1) :
                  /\ x % 10 \in {0, 4, 5, 6}
                  /\ x \div 10 \in {0, 1, 499, 500, 998, 999}}}

\* A segment boundary is formatted (write_srt calls format_srt_time).
FormatSrtTime ==
    /\ srt # NoCall
    /\ srt.out = <<>>
    /\ \E text \in format_srt_time(srt.seconds) : srt' = [srt EXCEPT !.out = text]
    /\ UNCHANGED <<jobs, _running, clock, worker, req, disk, served, credential>>

\* ------------------------------------------------------------ specification
Init ==
    /\ jobs = <<>>
    /\ _running = FALSE
    /\ clock = 1
    /\ worker = [w \in Workers |-> NoWorker]
    /\ req = EmptyBag
    /\ disk = [uploads |-> {}, out |-> {}, tmp |-> {}]
    /\ served = 0
    /\ credential \in BOOLEAN
    /\ srt = NoCall

WorkerStep(w) ==
    \/ Query(w) \/ QueryFail(w) \/ Claim(w) \/ ClaimFail(w)
    \/ ProbeDuration(w) \/ ProbeDurationFail(w)
    \/ ExtractAudioFail(w) \/ ExtractAudioLeak(w)
    \/ MissingCredential(w) \/ TranscribeFail(w) \/ WriteOutputsFail(w)
    \/ RecordRaise(w) \/ RunPipeline(w)
    \/ RecordDone(w) \/ RecordCommitFail(w)
    \/ HandleException(w) \/ HandleExceptionFail(w)
    \/ ResetRunning(w)

\* A step of one of the handler calls in progress.
ScanLoop == \E q \in Calls : ScanPath(q)
UploadFile == \E q \in Calls : UploadSave(q)
CommitSession == \E q \in Calls : CommitNew(q)
CommitRetry == \E q \in Calls : RetryCommit(q)
CallStartProcessing == \E q \in Calls : StartProcessing(q)
SpawnWorker == \E q \in Calls : StartThread(q)
Redirect == \E q \in Calls : SendResponse(q)

CallStep ==
    \/ ScanLoop \/ UploadFile \/ CommitSession \/ CommitRetry
    \/ CallStartProcessing \/ SpawnWorker \/ Redirect

\* A request arrives.
Arrival ==
    \/ \E folder \in ScanFolders : Scan(folder)
    \/ \E name \in UploadNames : Upload(name)
    \/ \E id \in 1..MaxJobs : Retry(id)

Next ==
    \/ \E w \in Workers : WorkerStep(w)
    \/ Arrival
    \/ CallStep

Spec == Init /\ [][Next]_vars

\* The behaviours in which no database error ends a worker thread (the query
\* and the commits of the loop's own bookkeeping succeed) and every pipeline
\* step terminates.  A thread that can take a step eventually takes one;
\* requests arrive or not.
SteadyWorkerStep(w) ==
    \/ Query(w) \/ Claim(w) \/ ProbeDuration(w)
    \/ ExtractAudioFail(w) \/ MissingCredential(w) \/ RunPipeline(w)
    \/ RecordDone(w)
    \/ HandleException(w) \/ ResetRunning(w)

SteadyNext ==
    \/ \E w \in Workers : SteadyWorkerStep(w)
    \/ Arrival
    \/ CallStep

FairSpec ==
    /\ Init
    /\ [][SteadyNext]_vars
    /\ \A w \in Workers : WF_vars(SteadyWorkerStep(w))
    /\ WF_vars(CallStep)

\* format_srt_time on its own: one call for each time of SrtTimes.
SrtInit ==
    /\ jobs = <<>>
    /\ _running = FALSE
    /\ clock = 1
    /\ worker = [w \in Workers |-> NoWorker]
    /\ req = EmptyBag
    /\ disk = [uploads |-> {}, out |-> {}, tmp |-> {}]
    /\ served = 0
    /\ credential = TRUE
    /\ srt \in {[seconds |-> t, out |-> <<>>] : t \in SrtTimes}

SrtSpec == SrtInit /\ [][FormatSrtTime]_vars

\* ------------------------------------------------------------------ claims
Status(i) == jobs[i].status
Processing == {i \in Ids : Status(i) = "processing"}
LiveWorkers == {w \in Workers : Live(w)}
CallsAt(pc) == {q \in Calls : q.pc = pc}

\* C1: in every reachable state at most one job has status "processing".
C1_AtMostOneProcessing == Cardinality(Processing) <= 1

\* A job is being processed, another waits, and an enqueue or retry is calling
\* start_processing.
C1_Witness ==
    /\ Processing # {}
    /\ Pending # {}
    /\ CallsAt("start") # {}

\* C2: at most one worker thread exists at any instant, and a start_processing
\* call made while a worker runs spawns nothing and changes no state: the call
\* just returns.
C2_SingleFlight ==
    /\ [](Cardinality(LiveWorkers) <= 1)
    /\ [][\A q \in Calls :
            (StartProcessing(q) /\ LiveWorkers # {}) =>
                /\ UNCHANGED <<jobs, _running, clock, worker, disk>>
                /\ CallsAt("spawn")' = {}
                /\ Respond(q, "running")]_vars

\* A call found the worker running and returned.
C2_Witness ==
    /\ LiveWorkers # {}
    /\ \E q \in CallsAt("respond") : q.result = "running"

\* C3: whenever the worker sets a job from pending to processing, no other job
\* pending at that instant has a strictly earlier created_at.
C3_ClaimsOldest ==
    [][\A w \in Workers :
        Claim(w) =>
            \A k \in Pending :
                jobs[k].created_at >= jobs[worker[w].video].created_at]_vars

\* C4: when a pipeline step has raised, the job ends as failed with the
\* failure's description as error_message, and the worker loop goes on.
C4_FailureIsolated ==
    [][\A w \in Workers :
        (worker[w].pc = "handler" /\ worker'[w].pc # "handler") =>
            /\ jobs'[worker[w].video].status = "failed"
            /\ jobs'[worker[w].video].error_message = worker[w].exc
            /\ worker'[w].pc = "query"]_vars

\* C5: a failed job has none of segments_json, transcript_text,
\* transcript_preview, txt_path and srt_path populated.
C5_FailedHasNoOutputs ==
    \A i \in Ids :
        Status(i) = "failed" =>
            /\ jobs[i].segments_json = NULL
            /\ jobs[i].transcript_text = NULL
            /\ jobs[i].transcript_preview = NULL
            /\ jobs[i].txt_path = NoPath
            /\ jobs[i].srt_path = NoPath

\* C6: a done job has segments_json, transcript_text, txt_path and srt_path
\* all populated, from the first state in which it is seen done.
C6_DoneHasAllOutputs ==
    \A i \in Ids :
        Status(i) = "done" =>
            /\ jobs[i].segments_json # NULL
            /\ jobs[i].transcript_text # NULL
            /\ jobs[i].txt_path # NoPath
            /\ jobs[i].srt_path # NoPath

\* A job is done while the worker has gone on to another one.
C6_Witness ==
    /\ \E i \in Ids : Status(i) = "done"
    /\ Processing # {}

\* C7: a job's status only changes along pending -> processing,
\* processing -> done, processing -> failed and failed -> pending.
LegalTransitions ==
    {<<"pending", "processing">>, <<"processing", "done">>,
     <<"processing", "failed">>, <<"failed", "pending">>}

C7_LegalTransitions ==
    [][\A i \in Ids :
        Status(i)' # Status(i) => <<Status(i), Status(i)'>> \in LegalTransitions]_vars

\* C8: every pending job eventually reaches done or failed.
C8_NoStarvation ==
    \A i \in 1..MaxJobs :
        (i \in Ids /\ Status(i) = "pending")
            ~> (i \in Ids /\ Status(i) \in {"done", "failed"})

\* C9: retry called on a job that is not failed changes no job, does not
\* call start_processing and only sends the response.
C9_RetryIgnored ==
    [][\A id \in Ids :
        (Retry(id) /\ Status(id) # "failed") =>
            /\ UNCHANGED <<jobs, _running, clock, worker, disk>>
            /\ CallsAt("commit")' = CallsAt("commit")
            /\ CallsAt("start")' = CallsAt("start")
            /\ CallsAt("spawn")' = CallsAt("spawn")]_vars

\* A retry of a done job was answered without effect.
C9_Witness ==
    \E q \in CallsAt("respond") :
        q.result = "ignored" /\ Status(q.video) = "done"

\* C10: retrying a failed job sets status to pending, clears error_message
\* and processed_at, changes no other column and no other row, and then
\* calls start_processing.
C10_RetryEffect ==
    [][\A q \in Calls :
        (RetryCommit(q) /\ Status(q.video) = "failed") =>
            /\ jobs' = [jobs EXCEPT ![q.video] =
                          [@ EXCEPT !.status = "pending",
                                    !.error_message = NULL,
                                    !.processed_at = None]]
            /\ Call("start", "retry") \in Calls']_vars

\* A retried job is pending again, its error cleared and its duration kept,
\* and the retry is calling start_processing.
C10_Witness ==
    /\ \E q \in CallsAt("start") : q.op = "retry"
    /\ \E i \in Pending :
        /\ jobs[i].error_message = NULL
        /\ jobs[i].processed_at = None
        /\ jobs[i].duration_seconds = Duration

\* C11: no two rows of the video table have the same filepath, however the
\* scans and uploads of one path interleave.
C11_UniqueFilepath ==
    \A i \in Ids : \A j \in Ids : jobs[i].filepath = jobs[j].filepath => i = j

\* Two scans of the same folder ran concurrently: the path has its one row and
\* the commit of the second scan was refused.
C11_Witness ==
    /\ \E i \in Ids : jobs[i].filepath = scan_folder("f1")[1]
    /\ \E q \in CallsAt("respond") : q.result = "error"

\* C12: the worker never writes a transcript file over an output file that was
\* written for a different job.
C12_NoOutputCollision ==
    [][\A f \in disk.out : \A g \in disk.out' :
        (g.name = f.name /\ g.ext = f.ext) => g.owner = f.owner]_vars

\* C13: with the credential absent no job is claimed, and no job is marked
\* failed because of the missing credential.
C13_CredentialFailsFast ==
    ~credential =>
        \A i \in Ids :
            /\ Status(i) # "processing"
            /\ jobs[i].error_message # MsgNoCredential

\* C14: whenever the worker claims a job or leaves its loop, no temporary
\* audio file made for an earlier job exists.
C14_TempAudioReleased ==
    [][\A w \in Workers :
        (Claim(w) \/ ResetRunning(w)) => disk.tmp = {}]_vars

\* C15: processed_at is set exactly for the jobs that have left processing:
\* set when the status is done or failed, unset when it is pending or
\* processing.
C15_ProcessedAtSet ==
    \A i \in Ids :
        (jobs[i].processed_at # None) <=> (Status(i) \in {"done", "failed"})

\* One job has left processing and has processed_at set, while a retry has
\* just put another back to pending with processed_at cleared.
C15_Witness ==
    /\ \E i \in Ids :
        Status(i) \in {"done", "failed"} /\ jobs[i].processed_at = Processed
    /\ \E i \in Pending : jobs[i].processed_at = None
    /\ \E q \in CallsAt("start") : q.op = "retry"

\* C16: format_srt_time returns HH:MM:SS,mmm with minutes and seconds of two
\* digits in 00..59, a millisecond field of exactly three digits, and the
\* whole timestamp equal to the time rounded to the nearest millisecond (so a
\* fraction that rounds up to a full second is carried into the seconds).
RECURSIVE Number(_)
Number(d) == IF d = <<>> THEN 0 ELSE 10 * Number(SubSeq(d, 1, Len(d) - 1)) + d[Len(d)]

C16_SrtTimestamp ==
    (srt # NoCall /\ srt.out # <<>>) =>
        LET units == srt.seconds[1] * SubUnits + srt.seconds[2]
            hh == srt.out[1]
            mm == srt.out[2]
            ss == srt.out[3]
            mmm == srt.out[4]
        IN  /\ Len(hh) >= 2
            /\ Len(mm) = 2 /\ Number(mm) <= 59
            /\ Len(ss) = 2 /\ Number(ss) <= 59
            /\ Len(mmm) = 3
            /\ ((Number(hh) * 60 + Number(mm)) * 60 + Number(ss)) * 1000
                   + Number(mmm) \in Millis(units)

\* C17: whenever the worker claims a job, no other pending job has the same
\* created_at and a smaller id.
C17_TieBreakLowestId ==
    [][\A w \in Workers :
        Claim(w) =>
            \A k \in Pending :
                jobs[k].created_at = jobs[worker[w].video].created_at
                    => k >= worker[w].video]_vars

\* C18: retry leaves created_at as it was, and the re-queued job keeps its
\* place: a pending job does not become processing while a job with an
\* earlier created_at (a retried one, inserted before it) is pending.
C18_RetryKeepsPlace ==
    [][/\ \A q \in Calls :
            RetryCommit(q) =>
                jobs'[q.video].created_at = jobs[q.video].created_at
       /\ \A k \in Ids : \A v \in Ids :
            (/\ Status(k) = "pending"
             /\ Status(v) = "pending"
             /\ jobs[k].created_at < jobs[v].created_at)
                => Status(v)' # "processing"]_vars

\* C19: if from some point on no request enqueues or retries a job, then the
\* worker eventually has left its loop with _running reset to False, and from
\* then on no job is pending or processing.
C19_DrainsAndStops ==
    <>[](req = EmptyBag) =>
        <>[](/\ ~_running
             /\ LiveWorkers = {}
             /\ Pending = {}
             /\ Processing = {})

\* C20: whenever _running is True, a worker thread is running or the
\* start_processing call that set the flag is about to start one.
C20_FlagHasWorker ==
    _running => (LiveWorkers # {} \/ CallsAt("spawn") # {})

====
